---- MODULE Spec2Model ----
(***************************************************************************)
(* Fornjot kernel: curve approximation cache, edge approximation,         *)
(* tetrahedron shell builder and triangle mesh containers; triangles,     *)
(* planes, the vertices of a shape, the cycle builder, the sweep and the  *)
(* operations of the 3-D shapes that are not implemented.                  *)
(*                                                                         *)
(* Curve coordinates are measured in quarter turns (TAU == 4), so that    *)
(* circle points are exact integers.  Tolerances and sagittas are in      *)
(* thousandths of a model unit.                                            *)
(***************************************************************************)
EXTENDS Integers, Sequences, FiniteSets, TLC

VARIABLES
    cache,          \* ApproxCache: global curve -> GlobalPathApprox
    samplerCalls,   \* instrumented path sampler: invocations per global curve
    log,            \* the approximation calls made so far, with their results
    last,           \* the last approximation call, with the cache before it
    pending,        \* per worker: the request it has issued but not yet run
    edge,           \* the Edge handed to the edge approximation
    edgeApprox,     \* the last result of Edge::approx
    tetraPoints,    \* the four points handed to ShellBuilder::tetrahedron
    objects,        \* the object store (Service<Objects>): its half-edges
    shell,          \* the shell built by ShellBuilder::tetrahedron
    mesh,           \* fj_interop::mesh::Mesh
    meshPushed,     \* the vertices pushed into mesh, in push order
    maker,          \* MeshMaker
    makerPushed,    \* the vertices pushed into maker, in push order
    trianglesPushed,\* the triangles pushed into mesh, in push order
    query,          \* the last contains_triangle query and its answer
    triArgs,        \* the three points handed to Triangle::new
    triResult,      \* the Result returned by Triangle::new
    plane,          \* a Plane (origin, u, v)
    planeCall,      \* the last conversion done with the plane, and its result
    shape,          \* kernel::shape::Shape: min_distance and its vertices
    shapeCall,      \* the last vertex insertion into the shape, and its result
    cycle,          \* PartialCycle: its half-edges
    partials,       \* the partial objects created so far (Partial::new)
    cycleCall,      \* the last CycleBuilder call, and what it returned
    sweepShape,     \* fj::Sweep: the swept shape and the length
    sweepOut,       \* what Sweep::faces built and returned
    shapeOp         \* the last call of an operation of a 3-D shape, and its outcome

cacheVars == <<cache, samplerCalls, log, last, pending>>
edgeVars  == <<edge, edgeApprox>>
shellVars == <<tetraPoints, objects, shell>>
meshVars  == <<mesh, meshPushed, maker, makerPushed, trianglesPushed, query>>
triVars   == <<triArgs, triResult>>
planeVars == <<plane, planeCall>>
shapeVars == <<shape, shapeCall>>
cycleVars == <<cycle, partials, cycleCall>>
sweepVars == <<sweepShape, sweepOut, shapeOp>>
approxVars == <<cacheVars, edgeVars, shellVars, meshVars>>
geometryVars == <<triVars, planeVars, shapeVars, cycleVars, sweepVars>>
vars      == <<approxVars, geometryVars>>

(***************************************************************************)
(* Bounds                                                                  *)
(***************************************************************************)
MaxCalls == 3
MaxPushes == 3
MaxTriangles == 2

(***************************************************************************)
(* Options and small helpers                                               *)
(***************************************************************************)
None == <<>>
Some(x) == <<x>>
Unwrap(o) == o[1]

EmptyMap == [k \in {} |-> 0]

MapSeq(F(_), s) == [i \in 1..Len(s) |-> F(s[i])]

(***************************************************************************)
(* Geometry: points, vectors and paths                                     *)
(***************************************************************************)
TAU == 4

Cos4(t) == CASE t % 4 = 0 -> 1 [] t % 4 = 1 -> 0 [] t % 4 = 2 -> -1 [] OTHER -> 0
Sin4(t) == CASE t % 4 = 0 -> 0 [] t % 4 = 1 -> 1 [] t % 4 = 2 -> 0 [] OTHER -> -1

VecAdd(p, q) == [i \in 1..Len(p) |-> p[i] + q[i]]
VecScale(v, k) == [i \in 1..Len(v) |-> v[i] * k]

Line(origin, direction) ==
    [kind |-> "Line", origin |-> origin, direction |-> direction]
Circle(center, a, b, radius) ==
    [kind |-> "Circle", center |-> center, a |-> a, b |-> b, radius |-> radius]

\* path.point_from_path_coords: curve coordinate -> point of the path's space
point_from_path_coords(path, t) ==
    IF path.kind = "Line"
    THEN VecAdd(path.origin, VecScale(path.direction, t))
    ELSE VecAdd(path.center,
                VecAdd(VecScale(path.a, Cos4(t)), VecScale(path.b, Sin4(t))))

(***************************************************************************)
(* Curves                                                                  *)
(***************************************************************************)
GlobalCurves == {"g1", "g2", "g3"}

\* GlobalCurve::path: the model-space path of each global curve
GlobalCurvePath(g) ==
    CASE g = "g1" -> Circle(<<0, 0, 0>>, <<1, 0, 0>>, <<0, 1, 0>>, 1)
      [] g = "g2" -> Circle(<<0, 0, 5>>, <<2, 0, 0>>, <<0, 2, 0>>, 2)
      [] OTHER    -> Line(<<0, 0, 0>>, <<0, 0, 1>>)

Curves == {"c1", "c2", "c3"}

\* Curve::global_form: c1 and c2 are local curves of the same global curve
global_form(c) == IF c = "c3" THEN "g2" ELSE "g1"

\* Curve::path: the surface-local path of each curve
CurvePath(c) ==
    CASE c = "c1" -> Circle(<<0, 0>>, <<1, 0>>, <<0, 1>>, 1)
      [] c = "c2" -> Circle(<<3, 3>>, <<0, 1>>, <<-1, 0>>, 1)
      [] OTHER    -> Circle(<<0, 0>>, <<2, 0>>, <<0, 2>>, 2)

Ranges == {<<0, 4>>, <<0, 2>>, <<1, 3>>}
Tolerances == {600, 1000}

(***************************************************************************)
(* The path sampler                                                        *)
(***************************************************************************)
\* Sagitta (in thousandths) of a chord spanning k quarter turns of a circle
Sagitta(k, radius) == IF k = 1 THEN 293 * radius ELSE 1000 * radius

\* The largest chord, in quarter turns, whose sagitta is within tolerance
StepFor(radius, tolerance) == IF Sagitta(2, radius) <= tolerance THEN 2 ELSE 1

\* (path, range).approx_with_cache: the points strictly inside the range,
\* as pairs (curve coordinate, point); a line needs no points
PathApprox(path, range, tolerance) ==
    IF path.kind = "Line"
    THEN <<>>
    ELSE LET step == StepFor(path.radius, tolerance)
             n == (range[2] - range[1] - 1) \div step
         IN  [i \in 1..n |-> <<range[1] + i * step,
                               point_from_path_coords(path, range[1] + i * step)>>]

(***************************************************************************)
(* ApproxCache                                                             *)
(***************************************************************************)
\* ApproxCache::global_curve
global_curve(c, g) == IF g \in DOMAIN c THEN Some(c[g]) ELSE None

\* ApproxCache::insert_global_curve: stores the approximation, returns it
insert_global_curve(c, g, approx) ==
    [cache |-> [k \in DOMAIN c \cup {g} |-> IF k = g THEN approx ELSE c[k]],
     result |-> approx]

(***************************************************************************)
(* Curve approximation                                                     *)
(***************************************************************************)
ApproxPoint(local, global) == [local_form |-> local, global_form |-> global]
with_source(point, source) ==
    [local_form |-> point.local_form, global_form |-> point.global_form,
     source |-> source]

\* Mutants of the global curve approximation: no cache lookup; no insert;
\* insert into a cache emptied of the other curves
ApproxGlobalCurve_NoLookup(c, calls, g, range, tolerance) ==
    LET sampled == PathApprox(GlobalCurvePath(g), range, tolerance)
        points == [i \in 1..Len(sampled) |->
                       ApproxPoint(sampled[i][1], sampled[i][2])]
        ins == insert_global_curve(c, g, [points |-> points])
    IN  [cache |-> ins.cache,
         calls |-> [calls EXCEPT ![g] = @ + 1],
         result |-> ins.result]

ApproxGlobalCurve_NoInsert(c, calls, g, range, tolerance) ==
    IF global_curve(c, g) # None
    THEN [cache |-> c, calls |-> calls, result |-> Unwrap(global_curve(c, g))]
    ELSE LET sampled == PathApprox(GlobalCurvePath(g), range, tolerance)
             points == [i \in 1..Len(sampled) |->
                            ApproxPoint(sampled[i][1], sampled[i][2])]
         IN  [cache |-> c,
              calls |-> [calls EXCEPT ![g] = @ + 1],
              result |-> [points |-> points]]

ApproxGlobalCurve_DropOthers(c, calls, g, range, tolerance) ==
    IF global_curve(c, g) # None
    THEN [cache |-> c, calls |-> calls, result |-> Unwrap(global_curve(c, g))]
    ELSE LET sampled == PathApprox(GlobalCurvePath(g), range, tolerance)
             points == [i \in 1..Len(sampled) |->
                            ApproxPoint(sampled[i][1], sampled[i][2])]
             ins == insert_global_curve(EmptyMap, g, [points |-> points])
         IN  [cache |-> ins.cache,
              calls |-> [calls EXCEPT ![g] = @ + 1],
              result |-> ins.result]

\* Mutant of the global curve approximation: a call for a curve the cache
\* holds samples again and replaces the entry
ApproxGlobalCurve_Resample(c, calls, g, range, tolerance) ==
    LET sampled == PathApprox(GlobalCurvePath(g), range, tolerance)
        points == [i \in 1..Len(sampled) |->
                       ApproxPoint(sampled[i][1], sampled[i][2])]
        ins == insert_global_curve(c, g, [points |-> points])
    IN  [cache |-> ins.cache,
         calls |-> [calls EXCEPT ![g] = @ + 1],
         result |-> ins.result]

\* impl Approx for (&GlobalCurve, RangeOnPath): the cache and the sampler
\* counters after the call, and the approximation returned
ApproxGlobalCurve(c, calls, g, range, tolerance) ==
    IF global_curve(c, g) # None
    THEN [cache |-> c, calls |-> calls, result |-> Unwrap(global_curve(c, g))]
    ELSE LET sampled == PathApprox(GlobalCurvePath(g), range, tolerance)
             points == [i \in 1..Len(sampled) |->
                            ApproxPoint(sampled[i][1], sampled[i][2])]
             ins == insert_global_curve(c, g, [points |-> points])
         IN  [cache |-> ins.cache,
              calls |-> [calls EXCEPT ![g] = @ + 1],
              result |-> ins.result]

\* Mutant of the curve approximation: approximates the global form past
\* the shared cache
ApproxCurve_FreshCache(c, calls, curve, range, tolerance) ==
    LET approx == ApproxGlobalCurve(EmptyMap, calls, global_form(curve), range,
                                    tolerance)
        points == [i \in 1..Len(approx.result.points) |->
                     LET point == approx.result.points[i]
                         point_surface ==
                             point_from_path_coords(CurvePath(curve), point.local_form)
                     IN  with_source(ApproxPoint(point_surface, point.global_form),
                                     <<curve, point.local_form>>)]
    IN  [cache |-> c, calls |-> approx.calls, result |-> [points |-> points]]

\* impl Approx for (&Curve, RangeOnPath)
ApproxCurve(c, calls, curve, range, tolerance) ==
    LET approx == ApproxGlobalCurve(c, calls, global_form(curve), range, tolerance)
        points == [i \in 1..Len(approx.result.points) |->
                     LET point == approx.result.points[i]
                         point_surface ==
                             point_from_path_coords(CurvePath(curve), point.local_form)
                     IN  with_source(ApproxPoint(point_surface, point.global_form),
                                     <<curve, point.local_form>>)]
    IN  [cache |-> approx.cache, calls |-> approx.calls,
         result |-> [points |-> points]]

\* One approximation request, of either kind
Requests ==
    [kind : {"global"}, curve : GlobalCurves, range : Ranges, tolerance : Tolerances]
    \cup [kind : {"curve"}, curve : Curves, range : Ranges, tolerance : Tolerances]

RunRequest(c, calls, req) ==
    IF req.kind = "global"
    THEN ApproxGlobalCurve(c, calls, req.curve, req.range, req.tolerance)
    ELSE ApproxCurve(c, calls, req.curve, req.range, req.tolerance)

\* The global curve a request is about
RequestGlobal(req) ==
    IF req.kind = "global" THEN req.curve ELSE global_form(req.curve)

NoCall == [kind |-> "none"]

CallRecord(req, out) ==
    [kind |-> req.kind, curve |-> req.curve, range |-> req.range,
     tolerance |-> req.tolerance, before |-> cache, result |-> out.result,
     sampled |-> out.calls[RequestGlobal(req)] - samplerCalls[RequestGlobal(req)]]

LogEntry(req, out) ==
    [kind |-> req.kind, curve |-> req.curve, range |-> req.range,
     tolerance |-> req.tolerance, result |-> out.result]

Workers == {1, 2}

\* The requests the workers issue: one range, on any curve
WorkerRequests == {req \in Requests : req.range = <<0, 4>>}

CacheInit ==
    /\ cache = EmptyMap
    /\ samplerCalls = [g \in GlobalCurves |-> 0]
    /\ log = <<>>
    /\ last = NoCall
    /\ pending = [w \in Workers |-> None]

\* A call of approx_with_cache on a global curve
ApproxGlobalCall(g, range, tolerance) ==
    LET req == [kind |-> "global", curve |-> g, range |-> range,
                tolerance |-> tolerance]
        out == RunRequest(cache, samplerCalls, req)
    IN  /\ Len(log) < MaxCalls
        /\ cache' = out.cache
        /\ samplerCalls' = out.calls
        /\ last' = CallRecord(req, out)
        /\ log' = Append(log, LogEntry(req, out))
        /\ UNCHANGED pending

\* A call of approx_with_cache on a local curve
ApproxCurveCall(curve, range, tolerance) ==
    LET req == [kind |-> "curve", curve |-> curve, range |-> range,
                tolerance |-> tolerance]
        out == RunRequest(cache, samplerCalls, req)
    IN  /\ Len(log) < MaxCalls
        /\ cache' = out.cache
        /\ samplerCalls' = out.calls
        /\ last' = CallRecord(req, out)
        /\ log' = Append(log, LogEntry(req, out))
        /\ UNCHANGED pending

\* A worker issues a request; it runs once the worker gets the cache
Issue(w, req) ==
    /\ pending[w] = None
    /\ pending' = [pending EXCEPT ![w] = Some(req)]
    /\ UNCHANGED <<cache, samplerCalls, log, last>>

\* A worker runs its request: approx_with_cache holds the cache by
\* exclusive borrow (&mut ApproxCache) for the whole call
Run(w) ==
    /\ pending[w] # None
    /\ LET req == Unwrap(pending[w])
           out == RunRequest(cache, samplerCalls, req)
       IN  /\ cache' = out.cache
           /\ samplerCalls' = out.calls
           /\ last' = CallRecord(req, out)
    /\ pending' = [pending EXCEPT ![w] = None]
    /\ UNCHANGED log

(***************************************************************************)
(* Edge approximation                                                      *)
(***************************************************************************)
\* The surface paths of the edges' curves
EdgeKinds ==
    {Line(o, d) : o \in {<<0, 0>>, <<1, 1>>}, d \in {<<1, 0>>, <<0, 1>>, <<1, 1>>}}
    \cup {Circle(c, <<r, 0>>, <<0, r>>, r) : c \in {<<0, 0>>, <<1, 1>>}, r \in {1, 2}}

\* The surface is the plane z = 0: a surface point or vector in model space
Lift(p) == <<p[1], p[2], 0>>

\* The model-space form of a curve on the surface
GlobalKind(kind) ==
    IF kind.kind = "Line"
    THEN Line(Lift(kind.origin), Lift(kind.direction))
    ELSE Circle(Lift(kind.center), Lift(kind.a), Lift(kind.b), kind.radius)

\* The curve coordinates of the two bounding vertices of an edge
VertexPositions == {<<0, 1>>, <<0, 2>>, <<1, 2>>, <<1, 3>>}

\* How far a stored global vertex position is from the curve's own value
Drifts == {<<0, 0, 0>>, <<0, 0, 1>>}

Vertex(kind, position, drift) ==
    [position |-> position,
     global |-> VecAdd(point_from_path_coords(GlobalKind(kind), position), drift)]

Edges ==
    {[curve |-> [kind |-> k, global |-> GlobalKind(k)], vertices |-> None] :
         k \in EdgeKinds}
    \cup {[curve |-> [kind |-> k, global |-> GlobalKind(k)],
           vertices |-> Some(<<Vertex(k, vp[1], d), Vertex(k, vp[2], d)>>)] :
              k \in EdgeKinds, vp \in VertexPositions, d \in Drifts}

\* Curve::approx: the sampled points of the range, as pairs
\* (surface point, model point)
CurveApproxRange(curve, tolerance, range) ==
    LET sampled == PathApprox(curve.global, range, tolerance)
    IN  [i \in 1..Len(sampled) |->
            <<point_from_path_coords(curve.kind, sampled[i][1]), sampled[i][2]>>]

\* impl Approx for Edge :: approx
EdgeApprox(e, tolerance) ==
    LET range == <<0, TAU>>
        points == CurveApproxRange(e.curve, tolerance, range)
    IN  IF e.vertices # None
        THEN LET first == Unwrap(e.vertices)[1]
                 point_surface == point_from_path_coords(e.curve.kind, first.position)
             IN  <<<<point_surface, first.global>>>> \o points
        ELSE points

EdgeInit == edge \in Edges /\ edgeApprox = None

\* A call of Edge::approx
EdgeApproxCall(tolerance) ==
    /\ edgeApprox' = Some([tolerance |-> tolerance,
                           points |-> EdgeApprox(edge, tolerance)])
    /\ UNCHANGED edge

(***************************************************************************)
(* Shell builder                                                           *)
(***************************************************************************)
ShellPoints == {<<0, 0, 0>>, <<1, 0, 0>>, <<0, 1, 0>>, <<0, 0, 1>>, <<1, 1, 1>>}

VecSub(p, q) == [i \in 1..Len(p) |-> p[i] - q[i]]

Det3(u, v, w) ==
    u[1] * (v[2] * w[3] - v[3] * w[2])
    - u[2] * (v[1] * w[3] - v[3] * w[1])
    + u[3] * (v[1] * w[2] - v[2] * w[1])

NonCoplanar(ps) ==
    Det3(VecSub(ps[2], ps[1]), VecSub(ps[3], ps[1]), VecSub(ps[4], ps[1])) # 0

HalfEdge(a, b) == [start |-> a, end |-> b]

\* The object stores a tetrahedron is built into: empty, or holding an
\* unrelated half-edge already
InitialObjects == {<<>>, <<HalfEdge(<<5, 5, 5>>, <<6, 6, 6>>)>>}

\* One slot of Face::triangle: the half-edge passed in, or a new one
TriangleSlot(objs, a, b, given) ==
    IF given # None
    THEN [objects |-> objs, handle |-> Unwrap(given)]
    ELSE [objects |-> Append(objs, HalfEdge(a, b)), handle |-> Len(objs) + 1]

\* Face::triangle: a face on three points; the half-edge of slot i runs
\* from point i to the next point, and is the one passed for the slot, if any
FaceTriangle(points, edges, objs) ==
    LET s1 == TriangleSlot(objs, points[1], points[2], edges[1])
        s2 == TriangleSlot(s1.objects, points[2], points[3], edges[2])
        s3 == TriangleSlot(s2.objects, points[3], points[1], edges[3])
        handles == <<s1.handle, s2.handle, s3.handle>>
    IN  [objects |-> s3.objects,
         face |-> [points |-> points, edges |-> handles],
         edges |-> handles]

\* Mutant of the builder: the third face gets its two edges in swapped slots
tetrahedron_SwappedSlots(points, objs) ==
    LET a == points[1]
        b == points[2]
        c == points[3]
        d == points[4]
        base   == FaceTriangle(<<a, b, c>>, <<None, None, None>>, objs)
        ab == base.edges[1]
        bc == base.edges[2]
        ca == base.edges[3]
        side_a == FaceTriangle(<<a, b, d>>, <<Some(ab), None, None>>, base.objects)
        bd == side_a.edges[2]
        da == side_a.edges[3]
        side_b == FaceTriangle(<<c, a, d>>, <<Some(da), Some(ca), None>>,
                               side_a.objects)
        dc == side_b.edges[3]
        side_c == FaceTriangle(<<b, c, d>>, <<Some(bc), Some(dc), Some(bd)>>,
                               side_b.objects)
    IN  [objects |-> side_c.objects,
         shell |-> <<base.face, side_a.face, side_b.face, side_c.face>>]

\* ShellBuilder::tetrahedron
tetrahedron(points, objs) ==
    LET a == points[1]
        b == points[2]
        c == points[3]
        d == points[4]
        base   == FaceTriangle(<<a, b, c>>, <<None, None, None>>, objs)
        ab == base.edges[1]
        bc == base.edges[2]
        ca == base.edges[3]
        side_a == FaceTriangle(<<a, b, d>>, <<Some(ab), None, None>>, base.objects)
        bd == side_a.edges[2]
        da == side_a.edges[3]
        side_b == FaceTriangle(<<c, a, d>>, <<Some(ca), Some(da), None>>,
                               side_a.objects)
        dc == side_b.edges[3]
        side_c == FaceTriangle(<<b, c, d>>, <<Some(bc), Some(dc), Some(bd)>>,
                               side_b.objects)
    IN  [objects |-> side_c.objects,
         shell |-> <<base.face, side_a.face, side_b.face, side_c.face>>]

ShellInit ==
    /\ tetraPoints \in {ps \in ShellPoints \X ShellPoints \X ShellPoints \X ShellPoints :
                           /\ Cardinality({ps[1], ps[2], ps[3], ps[4]}) = 4
                           /\ NonCoplanar(ps)}
    /\ objects \in InitialObjects
    /\ shell = None

\* A call of ShellBuilder::tetrahedron
TetrahedronCall ==
    /\ shell = None
    /\ LET out == tetrahedron(tetraPoints, objects)
       IN  /\ objects' = out.objects
           /\ shell' = Some([faces |-> out.shell,
                             created |-> Len(out.objects) - Len(objects)])
    /\ UNCHANGED tetraPoints

(***************************************************************************)
(* Triangle meshes                                                         *)
(***************************************************************************)
MeshPoints == {<<0, 0, 0>>, <<1, 0, 0>>, <<0, 1, 0>>, <<0, 0, 1>>}

Colors == {<<255, 0, 0, 255>>, <<0, 0, 255, 255>>}

\* Indices are u32 (Index); the lists of this model are far shorter than
\* 2^32, so `index as u32` never truncates and indices are plain naturals.

\* Mesh::new / Default for Mesh
MeshNew ==
    [vertices |-> <<>>, indices |-> <<>>, indices_by_vertex |-> EmptyMap,
     triangles |-> <<>>]

\* Mutant of push_vertex: a known vertex is stored again
push_vertex_NoDedup(m, vertex) ==
    [vertices |-> Append(m.vertices, vertex),
     indices |-> Append(m.indices, Len(m.vertices)),
     indices_by_vertex |->
         [v \in DOMAIN m.indices_by_vertex \cup {vertex} |->
              IF v = vertex THEN Len(m.vertices) ELSE m.indices_by_vertex[v]],
     triangles |-> m.triangles]

\* Mesh::push_vertex
push_vertex(m, vertex) ==
    IF vertex \in DOMAIN m.indices_by_vertex
    THEN [m EXCEPT !.indices = Append(@, m.indices_by_vertex[vertex])]
    ELSE LET index == Len(m.vertices)
         IN  [vertices |-> Append(m.vertices, vertex),
              indices |-> Append(m.indices, index),
              indices_by_vertex |->
                  [v \in DOMAIN m.indices_by_vertex \cup {vertex} |->
                       IF v = vertex THEN index ELSE m.indices_by_vertex[v]],
              triangles |-> m.triangles]

\* Ord for Point<3>: lexicographic
PointLess(p, q) ==
    \/ p[1] < q[1]
    \/ p[1] = q[1] /\ p[2] < q[2]
    \/ p[1] = q[1] /\ p[2] = q[2] /\ p[3] < q[3]

\* fj_math::Triangle::normalize: the three points in sorted order
normalize(t) ==
    LET lo == CHOOSE i \in 1..3 : \A j \in 1..3 : ~PointLess(t[j], t[i])
        hi == CHOOSE i \in 1..3 : i # lo /\ \A j \in 1..3 : ~PointLess(t[i], t[j])
        mid == CHOOSE i \in 1..3 : i # lo /\ i # hi
    IN  <<t[lo], t[mid], t[hi]>>

\* Mutant of contains_triangle: compares the triangles as they were given
contains_triangle_AsGiven(m, triangle) ==
    \E i \in 1..Len(m.triangles) : triangle = m.triangles[i].inner

\* Mesh::contains_triangle
contains_triangle(m, triangle) ==
    \E i \in 1..Len(m.triangles) :
        normalize(triangle) = normalize(m.triangles[i].inner)

\* Mesh::push_triangle
push_triangle(m, triangle, color) ==
    LET m1 == push_vertex(m, triangle[1])
        m2 == push_vertex(m1, triangle[2])
        m3 == push_vertex(m2, triangle[3])
    IN  [m3 EXCEPT !.triangles = Append(@, [inner |-> triangle, color |-> color])]

\* MeshMaker::new
MeshMakerNew == [vertices |-> <<>>, indices |-> <<>>]

\* Mutant of push: the search misses the first stored vertex
push_SkipFirst(mk, vertex) ==
    IF \E i \in 2..Len(mk.vertices) : mk.vertices[i] = vertex
    THEN LET pos == CHOOSE i \in 2..Len(mk.vertices) :
                        /\ mk.vertices[i] = vertex
                        /\ \A j \in 2..(i - 1) : mk.vertices[j] # vertex
         IN  [mk EXCEPT !.indices = Append(@, pos - 1)]
    ELSE [vertices |-> Append(mk.vertices, vertex),
          indices |-> Append(mk.indices, Len(mk.vertices))]

\* MeshMaker::push
push(mk, vertex) ==
    IF \E i \in 1..Len(mk.vertices) : mk.vertices[i] = vertex
    THEN LET pos == CHOOSE i \in 1..Len(mk.vertices) :
                        /\ mk.vertices[i] = vertex
                        /\ \A j \in 1..(i - 1) : mk.vertices[j] # vertex
         IN  [mk EXCEPT !.indices = Append(@, pos - 1)]
    ELSE [vertices |-> Append(mk.vertices, vertex),
          indices |-> Append(mk.indices, Len(mk.vertices))]

\* The triangles of three distinct points
Triangles ==
    {t \in MeshPoints \X MeshPoints \X MeshPoints :
         Cardinality({t[1], t[2], t[3]}) = 3}

\* The triangles pushed: those in which <<0, 0, 0>> comes right before or
\* right after <<1, 0, 0>>, in both windings
PushedTriangles ==
    {t \in Triangles : \E x \in MeshPoints :
         t \in {<<<<0, 0, 0>>, <<1, 0, 0>>, x>>, <<<<0, 0, 0>>, x, <<1, 0, 0>>>>,
                <<x, <<0, 0, 0>>, <<1, 0, 0>>>>}}

MeshInit ==
    /\ mesh = MeshNew /\ meshPushed = <<>>
    /\ maker = MeshMakerNew /\ makerPushed = <<>>
    /\ trianglesPushed = <<>>
    /\ query = None

\* A call of Mesh::push_vertex
PushVertexCall(v) ==
    /\ Len(meshPushed) < MaxPushes
    /\ mesh' = push_vertex(mesh, v)
    /\ meshPushed' = Append(meshPushed, v)
    /\ query' = None
    /\ UNCHANGED <<maker, makerPushed, trianglesPushed>>

\* A call of MeshMaker::push
PushCall(v) ==
    /\ Len(makerPushed) < MaxPushes
    /\ maker' = push(maker, v)
    /\ makerPushed' = Append(makerPushed, v)
    /\ UNCHANGED <<mesh, meshPushed, trianglesPushed, query>>

\* A call of Mesh::push_triangle
PushTriangleCall(t, color) ==
    /\ Len(trianglesPushed) < MaxTriangles
    /\ mesh' = push_triangle(mesh, t, color)
    /\ meshPushed' = meshPushed \o t
    /\ trianglesPushed' = Append(trianglesPushed, [points |-> t, color |-> color])
    /\ query' = None
    /\ UNCHANGED <<maker, makerPushed>>

\* A call of Mesh::contains_triangle (&self: the mesh is only read)
ContainsTriangleCall(t) ==
    /\ query' = Some([triangle |-> t, answer |-> contains_triangle(mesh, t)])
    /\ UNCHANGED <<mesh, meshPushed, maker, makerPushed, trianglesPushed>>

(***************************************************************************)
(* Triangle::new (fj::geometry::shapes)                                    *)
(***************************************************************************)
\* The points triangles are made of
GridPoints == {<<x, y>> : x \in 0..2, y \in 0..2}

\* Ord for the coordinate arrays of two points: lexicographic
LexLess(p, q) ==
    \E i \in 1..Len(p) : p[i] < q[i] /\ \A j \in 1..(i - 1) : p[j] = q[j]

\* std::cmp::min of the coordinate arrays of two points
MinPoint(p, q) == IF LexLess(q, p) THEN q ELSE p

Dot(u, v) ==
    IF Len(u) = 2 THEN u[1] * v[1] + u[2] * v[2]
    ELSE u[1] * v[1] + u[2] * v[2] + u[3] * v[3]

Cross2(u, v) == u[1] * v[2] - u[2] * v[1]

\* u.normalize() == v.normalize(), for non-zero vectors: the same direction
SameNormalized(u, v) == Cross2(u, v) = 0 /\ Dot(u, v) > 0

Ok(x) == [ok |-> TRUE, value |-> x]
Err(e) == [ok |-> FALSE, error |-> e]

\* Mutant of Triangle::new: the rotation to a smallest second point swaps
\* the other two points
TriangleNew_Swapped(a, b, c) ==
    IF a = b \/ a = c \/ b = c
    THEN Err("CollapsedPoints")
    ELSE IF SameNormalized(VecSub(b, a), VecSub(c, b))
    THEN Err("IsALineSegment")
    ELSE LET min == MinPoint(a, MinPoint(b, c))
         IN  IF a = min THEN Ok(<<a, b, c>>)
             ELSE IF b = min THEN Ok(<<b, a, c>>)
             ELSE Ok(<<c, a, b>>)

\* Triangle::new
TriangleNew(a, b, c) ==
    IF a = b \/ a = c \/ b = c
    THEN Err("CollapsedPoints")
    ELSE IF SameNormalized(VecSub(b, a), VecSub(c, b))
    THEN Err("IsALineSegment")
    ELSE LET min == MinPoint(a, MinPoint(b, c))
         IN  IF a = min THEN Ok(<<a, b, c>>)
             ELSE IF b = min THEN Ok(<<b, c, a>>)
             ELSE Ok(<<c, a, b>>)

TriInit ==
    /\ triArgs \in GridPoints \X GridPoints \X GridPoints
    /\ triResult = None

\* A call of Triangle::new
TriangleNewCall ==
    /\ triResult' = Some(TriangleNew(triArgs[1], triArgs[2], triArgs[3]))
    /\ UNCHANGED triArgs

(***************************************************************************)
(* Surface and Plane (kernel::geometry::surfaces)                          *)
(*                                                                         *)
(* Coordinates are integers.  The directions u and v of a plane run along  *)
(* the axes, in either sense, with length 1 or 2, so that norms and scalar *)
(* projections are integers too; the fields of Plane are public and the    *)
(* code requires nothing of u and v but that they are not parallel.        *)
(***************************************************************************)
Cross3(u, v) ==
    << u[2] * v[3] - u[3] * v[2],
       u[3] * v[1] - u[1] * v[3],
       u[1] * v[2] - u[2] * v[1] >>

Abs(x) == IF x < 0 THEN -x ELSE x

\* f64::sqrt, on the squares
Sqrt(n) == CHOOSE r \in 0..n : r * r = n

\* Vector::norm
Norm(u) == Sqrt(Dot(u, u))

\* Vector::normalize
Normalize(u) == [i \in 1..Len(u) |-> u[i] \div Norm(u)]

AxisVectors ==
    {VecScale(e, k) : e \in {<<1, 0, 0>>, <<0, 1, 0>>, <<0, 0, 1>>},
                      k \in {-2, -1, 1, 2}}

Plane(origin, u, v) == [origin |-> origin, u |-> u, v |-> v]

\* The planes: u and v are not parallel
Planes ==
    {pl \in [origin : {<<0, 0, 0>>, <<1, 2, 3>>},
             u : AxisVectors, v : AxisVectors] :
        Cross3(pl.u, pl.v) # <<0, 0, 0>>}

\* Points in model coordinates
ModelPoints == {<<x, y, z>> : x \in 0..2, y \in {0, 2, 4}, z \in {0, 3, 6}}

\* Points in surface coordinates
SurfacePoints == {<<s, t>> : s \in 0..2, t \in {0, 1, 4}}

\* distance > default_epsilon, for the distance num / den: the epsilon is
\* 2^-52 and den is at most 4, so a distance above it is one with num >= 1
ExceedsEpsilon(num, den) == num >= 1

\* Mutant of Plane::point_model_to_surface: projects on u and v as they
\* are, not normalized
PlanePointModelToSurface_Unnormalized(self, point) ==
    LET normal == Cross3(self.u, self.v)
        d == -Dot(normal, self.origin)
        num == Abs(Dot(normal, point) + d)
        den == Sqrt(Dot(normal, normal))
        p == VecSub(point, self.origin)
    IN  IF ExceedsEpsilon(num, den)
        THEN Err(<<>>)
        ELSE Ok(<<Dot(p, self.u), Dot(p, self.v)>>)

\* Plane::point_model_to_surface
PlanePointModelToSurface(self, point) ==
    LET normal == Cross3(self.u, self.v)
        d == -Dot(normal, self.origin)
        num == Abs(Dot(normal, point) + d)
        den == Sqrt(Dot(normal, normal))
        p == VecSub(point, self.origin)
    IN  IF ExceedsEpsilon(num, den)
        THEN Err(<<>>)
        ELSE Ok(<<Dot(p, Normalize(self.u)), Dot(p, Normalize(self.v))>>)

\* Plane::vector_surface_to_model
PlaneVectorSurfaceToModel(self, vector) ==
    VecAdd(VecScale(self.u, vector[1]), VecScale(self.v, vector[2]))

\* Plane::point_surface_to_model
PlanePointSurfaceToModel(self, point) ==
    VecAdd(self.origin, PlaneVectorSurfaceToModel(self, point))

\* Surface::Plane
SurfacePlane(p) == [kind |-> "Plane", plane |-> p]

\* Surface::point_model_to_surface
SurfacePointModelToSurface(self, point) ==
    CASE self.kind = "Plane" -> PlanePointModelToSurface(self.plane, point)

\* Surface::point_surface_to_model
SurfacePointSurfaceToModel(self, point) ==
    CASE self.kind = "Plane" -> PlanePointSurfaceToModel(self.plane, point)

PlaneInit ==
    /\ plane \in {Some(p) : p \in Planes}
    /\ planeCall = None

PlaneCallRecord(on, op, input, result) ==
    Some([on |-> on, op |-> op, input |-> input, result |-> result])

\* A call of Plane::point_model_to_surface
PlaneModelToSurfaceCall ==
    \E point \in ModelPoints :
        /\ planeCall' = PlaneCallRecord("Plane", "point_model_to_surface",
               point, PlanePointModelToSurface(Unwrap(plane), point))
        /\ UNCHANGED plane

\* A call of Surface::point_model_to_surface on the surface of the plane
SurfaceModelToSurfaceCall ==
    \E point \in ModelPoints :
        /\ planeCall' = PlaneCallRecord("Surface", "point_model_to_surface",
               point,
               SurfacePointModelToSurface(SurfacePlane(Unwrap(plane)), point))
        /\ UNCHANGED plane

\* A call of Plane::point_surface_to_model
PlaneSurfaceToModelCall ==
    \E point \in SurfacePoints :
        /\ planeCall' = PlaneCallRecord("Plane", "point_surface_to_model",
               point, PlanePointSurfaceToModel(Unwrap(plane), point))
        /\ UNCHANGED plane

\* A call of Surface::point_surface_to_model on the surface of the plane
SurfaceSurfaceToModelCall ==
    \E point \in SurfacePoints :
        /\ planeCall' = PlaneCallRecord("Surface", "point_surface_to_model",
               point,
               SurfacePointSurfaceToModel(SurfacePlane(Unwrap(plane)), point))
        /\ UNCHANGED plane

(***************************************************************************)
(* Shape and its vertices (kernel::shape)                                  *)
(*                                                                         *)
(* Lengths are in units of 1e-7, so the default minimum distance 5e-7 is   *)
(* 5.  Distances are compared by their squares.                            *)
(***************************************************************************)
\* The most vertices offered to a shape
MaxVertices == 3

\* Scalar::from_f64(5e-7)
DefaultMinDistance == 5

\* The values given to with_min_distance
MinDistances == {2, 8}

\* Positions of vertices: pairs of them are 3, 4, 5, 6 and more apart
VertexPoints == {<<x, y, 0>> : x \in {0, 3, 6}, y \in {0, 4}}

\* The square of (a - b).magnitude()
DistanceSquared(a, b) == Dot(VecSub(a, b), VecSub(a, b))

\* Shape::new.  inserted_with records, for each stored vertex, the minimum
\* distance it was validated against.
ShapeNew ==
    [min_distance |-> DefaultMinDistance,
     vertices |-> <<>>,
     inserted_with |-> <<>>]

\* Shape::with_min_distance
with_min_distance(self, min_distance) ==
    [self EXCEPT !.min_distance = min_distance]

\* Mutant of Shape::topology: validates against the default minimum
\* distance
topology_DefaultDistance(self) ==
    [min_distance |-> DefaultMinDistance, vertices |-> self.vertices]

\* Shape::topology
topology(self) ==
    [min_distance |-> self.min_distance, vertices |-> self.vertices]

\* The vertices a call can offer: a new vertex at some position, or one of
\* the vertices already stored
OfferedVertices(self) ==
    {[id |-> Len(self.vertices) + 1, point |-> p] : p \in VertexPoints}
        \cup {self.vertices[i] : i \in 1..Len(self.vertices)}

\* The stored vertices, other than the vertex itself, that the vertex is
\* too close to
TooClose(topo, vertex) ==
    {i \in 1..Len(topo.vertices) :
        /\ topo.vertices[i].id # vertex.id
        /\ DistanceSquared(topo.vertices[i].point, vertex.point)
               < topo.min_distance * topo.min_distance}

\* Topology::add_vertex: the result and the vertices afterwards
add_vertex(topo, vertex) ==
    IF TooClose(topo, vertex) # {}
    THEN [result |-> Err("Uniqueness"), vertices |-> topo.vertices]
    ELSE IF \E i \in 1..Len(topo.vertices) : topo.vertices[i].id = vertex.id
    THEN [result |-> Ok(vertex.id), vertices |-> topo.vertices]
    ELSE [result |-> Ok(vertex.id),
          vertices |-> Append(topo.vertices, vertex)]

ShapeInit ==
    /\ shape = Some(ShapeNew)
    /\ shapeCall = None

\* A call of Shape::with_min_distance
WithMinDistanceCall ==
    \E d \in MinDistances :
        /\ shape' = Some(with_min_distance(Unwrap(shape), d))
        /\ shapeCall' = Some([op |-> "with_min_distance"])

\* A call of shape.topology().add_vertex(vertex)
AddVertexCall ==
    /\ Len(Unwrap(shape).vertices) < MaxVertices
    /\ \E vertex \in OfferedVertices(Unwrap(shape)) :
        LET self == Unwrap(shape)
            out == add_vertex(topology(self), vertex)
            added == Len(out.vertices) - Len(self.vertices)
        IN  /\ shape' = Some([self EXCEPT
                   !.vertices = out.vertices,
                   !.inserted_with =
                       IF added = 1 THEN Append(@, self.min_distance) ELSE @])
            /\ shapeCall' = Some([op |-> "add_vertex",
                                  vertex |-> vertex,
                                  min_distance |-> self.min_distance,
                                  before |-> self.vertices,
                                  result |-> out.result])

(***************************************************************************)
(* CycleBuilder for PartialCycle (fj_kernel::builder::cycle)               *)
(*                                                                         *)
(* partials is the store of the partial service: the half-edges that were  *)
(* created, a Partial<HalfEdge> being the index of one, and the number of  *)
(* vertices that were created.  A half-edge has a start vertex and, if it  *)
(* is a line segment, the two points of the segment.                       *)
(***************************************************************************)
\* The most half-edges created
MaxHalfEdges == 4

\* Points in surface coordinates that half-edges run between
CyclePoints == {<<0, 0>>, <<1, 0>>, <<0, 1>>}

\* The point arguments of update_as_polygon_from_points
Polygons ==
    {ps \in UNION {[1..n -> CyclePoints] : n \in 2..3} :
        \A i, j \in 1..Len(ps) : i # j => ps[i] # ps[j]}

\* The point arguments of line segments made outside the builder
Segments == {<<<<0, 0>>, <<1, 0>>>>, <<<<1, 0>>, <<0, 0>>>>,
             <<<<1, 0>>, <<0, 1>>>>}

\* Sequences of distinct half-edges of the store
HalfEdgeArguments(service) ==
    {es \in UNION {[1..n -> 1..Len(service.half_edges)] : n \in 1..2} :
        \A i, j \in 1..Len(es) : i # j => es[i] # es[j]}

\* Service<Objects>, empty
NoPartials == [half_edges |-> <<>>, vertices |-> 0]

\* PartialCycle::default
PartialCycleNew == [half_edges |-> <<>>]

\* ObjectArgument::map_with_next: each element with the one after it, the
\* last with the first
MapWithNext(xs) ==
    [i \in 1..Len(xs) |-> <<xs[i], xs[(i % Len(xs)) + 1]>>]

\* ObjectArgument::map_with_prev: each element with the one before it, the
\* first with the last
MapWithPrev(xs) ==
    [i \in 1..Len(xs) |-> <<xs[i], xs[IF i = 1 THEN Len(xs) ELSE i - 1]>>]

\* PartialHalfEdge::make_line_segment with no start vertex given: the
\* half-edge gets a vertex of its own
make_line_segment(points, service) ==
    [start_vertex |-> service.vertices + 1, points |-> Some(points)]

\* Partial::new for a half-edge
PartialNew(service) ==
    [start_vertex |-> service.vertices + 1, points |-> None]

\* The store with one more half-edge, which came with a vertex
Created(service, half_edge) ==
    [half_edges |-> Append(service.half_edges, half_edge),
     vertices |-> service.vertices + 1]

\* CycleBuilder::add_half_edge
add_half_edge(self, half_edge) ==
    [self EXCEPT !.half_edges = Append(@, half_edge)]

\* The state of a builder call: the cycle, the store, and the half-edges
\* returned so far
BuilderState(self, service, returned) ==
    [self |-> self, objects |-> service, returned |-> returned]

\* The closure of update_as_polygon_from_points, on one pair of points
PolygonStep(st, pair) ==
    LET half_edge == Len(st.objects.half_edges) + 1
    IN  BuilderState(add_half_edge(st.self, half_edge),
                     Created(st.objects,
                             make_line_segment(pair, st.objects)),
                     Append(st.returned, half_edge))

\* Mutant of update_as_polygon_from_points: pairs each point with the one
\* before it
update_as_polygon_from_points_WithPrev(self, points, service) ==
    LET pairs == MapWithPrev(points)
        Fold[i \in 0..Len(pairs)] ==
            IF i = 0 THEN BuilderState(self, service, <<>>)
            ELSE PolygonStep(Fold[i - 1], pairs[i])
    IN  Fold[Len(pairs)]

\* CycleBuilder::update_as_polygon_from_points
update_as_polygon_from_points(self, points, service) ==
    LET pairs == MapWithNext(points)
        Fold[i \in 0..Len(pairs)] ==
            IF i = 0 THEN BuilderState(self, service, <<>>)
            ELSE PolygonStep(Fold[i - 1], pairs[i])
    IN  Fold[Len(pairs)]

\* Mutant of the closure of connect_to_edges: takes the start vertex of
\* the half-edge itself
ConnectStep_OwnStart(st, pair) ==
    LET half_edge == Len(st.objects.half_edges) + 1
        new_edge == [PartialNew(st.objects) EXCEPT !.start_vertex =
                     st.objects.half_edges[pair[1]].start_vertex]
    IN  BuilderState(add_half_edge(st.self, half_edge),
                     Created(st.objects, new_edge),
                     Append(st.returned, half_edge))

\* The closure of connect_to_edges, on one half-edge and the one before it
ConnectStep(st, pair) ==
    LET half_edge == Len(st.objects.half_edges) + 1
        new_edge == [PartialNew(st.objects) EXCEPT !.start_vertex =
                     st.objects.half_edges[pair[2]].start_vertex]
    IN  BuilderState(add_half_edge(st.self, half_edge),
                     Created(st.objects, new_edge),
                     Append(st.returned, half_edge))

\* CycleBuilder::connect_to_edges
connect_to_edges(self, edges, service) ==
    LET pairs == MapWithPrev(edges)
        Fold[i \in 0..Len(pairs)] ==
            IF i = 0 THEN BuilderState(self, service, <<>>)
            ELSE ConnectStep(Fold[i - 1], pairs[i])
    IN  Fold[Len(pairs)]

CycleInit ==
    /\ cycle = Some(PartialCycleNew)
    /\ partials = Some(NoPartials)
    /\ cycleCall = None

CycleCallRecord(op, input, returned) ==
    Some([op |-> op, input |-> input, returned |-> returned,
          before |-> Unwrap(cycle).half_edges,
          objects |-> Unwrap(partials)])

\* A line segment made outside the builder, to be added to the cycle
MakeLineSegmentCall ==
    /\ Len(Unwrap(partials).half_edges) < MaxHalfEdges
    /\ \E points \in Segments :
        /\ partials' = Some(Created(Unwrap(partials),
               make_line_segment(points, Unwrap(partials))))
        /\ cycleCall' = CycleCallRecord("make_line_segment", points,
               <<Len(Unwrap(partials).half_edges) + 1>>)
        /\ UNCHANGED cycle

\* A call of add_half_edge with a half-edge that is not in the cycle
AddHalfEdgeCall ==
    \E half_edge \in 1..Len(Unwrap(partials).half_edges) :
        /\ \A i \in 1..Len(Unwrap(cycle).half_edges) :
               Unwrap(cycle).half_edges[i] # half_edge
        /\ cycle' = Some(add_half_edge(Unwrap(cycle), half_edge))
        /\ cycleCall' = CycleCallRecord("add_half_edge", half_edge, <<>>)
        /\ UNCHANGED partials

\* A call of update_as_polygon_from_points
UpdateAsPolygonFromPointsCall ==
    \E points \in Polygons :
        /\ Len(Unwrap(partials).half_edges) + Len(points) <= MaxHalfEdges
        /\ LET out == update_as_polygon_from_points(
                          Unwrap(cycle), points, Unwrap(partials))
           IN  /\ cycle' = Some(out.self)
               /\ partials' = Some(out.objects)
               /\ cycleCall' = CycleCallRecord(
                      "update_as_polygon_from_points", points, out.returned)

\* A call of connect_to_edges
ConnectToEdgesCall ==
    \E edges \in HalfEdgeArguments(Unwrap(partials)) :
        /\ Len(Unwrap(partials).half_edges) + Len(edges) <= MaxHalfEdges
        /\ LET out == connect_to_edges(
                          Unwrap(cycle), edges, Unwrap(partials))
           IN  /\ cycle' = Some(out.self)
               /\ partials' = Some(out.objects)
               /\ cycleCall' = CycleCallRecord(
                      "connect_to_edges", edges, out.returned)

(***************************************************************************)
(* Edges, cycles and the faces of a sweep (kernel::topology::edges,        *)
(* kernel::shapes::sweep)                                                  *)
(*                                                                         *)
(* A vertex of an edge has its coordinate on the curve of the edge and its *)
(* canonical location in model coordinates.  Sweeps run along the positive *)
(* z axis.                                                                 *)
(***************************************************************************)
\* Isometry::translation(0, 0, z)
Translation(z) == [kind |-> "translation", z |-> z]

\* Isometry::rotation(vector![PI, 0., 0.])
RotationPiX == [kind |-> "rotation"]

\* Transform::transform_point
TransformPoint(t, p) ==
    IF t.kind = "translation" THEN <<p[1], p[2], p[3] + t.z>>
    ELSE <<p[1], -p[2], -p[3]>>

\* Transform::transform_vector
TransformVector(t, v) ==
    IF t.kind = "translation" THEN v ELSE <<v[1], -v[2], -v[3]>>

\* Curve::Line
CurveLine(origin, direction) ==
    [kind |-> "Line", origin |-> origin, direction |-> direction]

\* Curve::Circle
CurveCircle(center, radius) ==
    [kind |-> "Circle", center |-> center, radius |-> radius]

\* Curve::transform
CurveTransform(curve, t) ==
    IF curve.kind = "Line"
    THEN CurveLine(TransformPoint(t, curve.origin),
                   TransformVector(t, curve.direction))
    ELSE CurveCircle(TransformPoint(t, curve.center),
                     TransformVector(t, curve.radius))

\* Vertex::create_at
create_at(location) == [canonical |-> location]

\* Vertex::to_1d: the vertex in the coordinates of a line it is on
to_1d(vertex, curve) ==
    [location |-> CHOOSE c \in 0..1 :
                      VecAdd(curve.origin, VecScale(curve.direction, c))
                          = vertex.canonical,
     canonical |-> vertex.canonical]

\* Vertex::to_canonical
to_canonical(vertex) == [canonical |-> vertex.canonical]

\* Vertex::transform
VertexTransform(vertex, t) ==
    [vertex EXCEPT !.canonical = TransformPoint(t, @)]

\* Edge::new
EdgeNew(curve, vertices) ==
    [curve |-> curve,
     vertices |-> IF vertices = None THEN None
                  ELSE Some(<<to_1d(Unwrap(vertices)[1], curve),
                              to_1d(Unwrap(vertices)[2], curve)>>),
     reverse |-> FALSE]

\* Edge::circle
EdgeCircle(radius) ==
    [curve |-> CurveCircle(<<0, 0, 0>>, <<radius, 0, 0>>),
     vertices |-> None,
     reverse |-> FALSE]

\* Edge::sweep_vertex
sweep_vertex(vertex, path) ==
    LET line == CurveLine(vertex.canonical, path)
        a == vertex
        b == create_at(VecAdd(line.origin, line.direction))
    IN  EdgeNew(line, Some(<<a, b>>))

\* Edge::transform
EdgeTransform(self, t) ==
    [self EXCEPT
        !.curve = CurveTransform(@, t),
        !.vertices = IF @ = None THEN None
                     ELSE Some(<<VertexTransform(Unwrap(@)[1], t),
                                 VertexTransform(Unwrap(@)[2], t)>>)]

\* edges::Cycle
EdgeCycle(edges) == [edges |-> edges]

\* Edges::single_cycle
single_cycle(edges) == [cycles |-> <<EdgeCycle(edges)>>]

\* Edges::transform
EdgesTransform(self, t) ==
    [cycles |-> [i \in 1..Len(self.cycles) |->
        EdgeCycle([j \in 1..Len(self.cycles[i].edges) |->
            EdgeTransform(self.cycles[i].edges[j], t)])]]

\* The swept shapes: a circle, or a sketch with its corner points
SketchPoints == {<<x, y>> : x \in 0..1, y \in 0..1}

Shapes2d ==
    {[kind |-> "Circle", radius |-> r] : r \in 1..2}
        \cup {[kind |-> "Sketch", points |-> ps] :
                 ps \in {qs \in UNION {[1..n -> SketchPoints] : n \in 3..4} :
                            \A i, j \in 1..Len(qs) : i # j => qs[i] # qs[j]}}

\* The lengths of the sweeps
SweepLengths == 1..2

\* The vertex of a sketch at a corner point
SketchVertex(p) == create_at(<<p[1], p[2], 0>>)

\* Shape::edges of the swept shape2d: the circle, or the line segments that
\* connect each corner point of the sketch to the next
ShapeEdges(shape2d) ==
    IF shape2d.kind = "Circle"
    THEN single_cycle(<<EdgeCircle(shape2d.radius)>>)
    ELSE single_cycle(
        [i \in 1..Len(shape2d.points) |->
            LET a == SketchVertex(shape2d.points[i])
                b == SketchVertex(MapWithNext(shape2d.points)[i][2])
            IN  EdgeNew(CurveLine(a.canonical,
                                  VecSub(b.canonical, a.canonical)),
                        Some(<<a, b>>))])

\* Surface::x_y_plane
x_y_plane == SurfacePlane(Plane(<<0, 0, 0>>, <<1, 0, 0>>, <<0, 1, 0>>))

\* Surface::transform
SurfaceTransform(self, t) ==
    SurfacePlane(Plane(TransformPoint(t, self.plane.origin),
                       TransformVector(t, self.plane.u),
                       TransformVector(t, self.plane.v)))

\* Surface::sweep_from
sweep_from(curve, path) == [kind |-> "Swept", curve |-> curve, path |-> path]

\* Face::Face
FaceFace(edges, surface) ==
    [kind |-> "Face", edges |-> edges, surface |-> surface]

\* Face::Triangles
FaceTriangles(triangles) == [kind |-> "Triangles", triangles |-> triangles]

\* Shape::faces of the swept shape2d: one face in the x-y plane
ShapeFaces(shape2d) == <<FaceFace(ShapeEdges(shape2d), x_y_plane)>>

\* Faces::transform
FacesTransform(faces, t) ==
    [i \in 1..Len(faces) |->
        FaceFace(EdgesTransform(faces[i].edges, t),
                 SurfaceTransform(faces[i].surface, t))]

\* Approximation::for_edges: the segments that approximate the edges, a
\* line by itself and a circle by the chords of its quarters
ApproxSegments(edges) ==
    LET OfEdge(e) ==
            IF e.vertices # None
            THEN <<<<Unwrap(e.vertices)[1].canonical,
                     Unwrap(e.vertices)[2].canonical>>>>
            ELSE [k \in 1..4 |->
                     <<VecAdd(e.curve.center,
                           VecScale(<<Cos4(k - 1), Sin4(k - 1), 0>>,
                                    e.curve.radius[1])),
                       VecAdd(e.curve.center,
                           VecScale(<<Cos4(k), Sin4(k), 0>>,
                                    e.curve.radius[1]))>>]
        all == edges.cycles[1].edges
        Fold[i \in 0..Len(all)] ==
            IF i = 0 THEN <<>> ELSE Fold[i - 1] \o OfEdge(all[i])
    IN  Fold[Len(all)]

\* The body of the loop over the edges in Sweep::faces: the side face of
\* one edge, and the vertices that were created for it
SideFace(swept_edge, length) ==
    LET top_edge == EdgeTransform(swept_edge, Translation(length))
        path == <<0, 0, length>>
        surface == sweep_from(swept_edge.curve, path)
    IN  IF swept_edge.vertices # None
        THEN LET a == sweep_vertex(
                          to_canonical(Unwrap(swept_edge.vertices)[1]), path)
                 b == sweep_vertex(
                          to_canonical(Unwrap(swept_edge.vertices)[2]), path)
             IN  [face |-> FaceFace(
                      single_cycle(<<swept_edge, a, top_edge, b>>), surface),
                  created |-> <<Unwrap(a.vertices)[2].canonical,
                                Unwrap(b.vertices)[2].canonical>>]
        ELSE [face |-> FaceFace(
                  [cycles |-> <<EdgeCycle(<<swept_edge>>),
                                EdgeCycle(<<top_edge>>)>>], surface),
              created |-> <<>>]

\* Sweep::faces: the faces it returns, with the side faces it has built
\* and the locations of the vertices it has created
SweepFaces(self) ==
    LET original_faces == ShapeFaces(self.shape)
        bottom_faces == FacesTransform(original_faces, RotationPiX)
        top_faces == FacesTransform(original_faces, Translation(self.length))
        all == ShapeEdges(self.shape).cycles[1].edges
        Sides[i \in 0..Len(all)] ==
            IF i = 0 THEN [side_faces |-> <<>>, created |-> <<>>]
            ELSE LET side == SideFace(all[i], self.length)
                 IN  [side_faces |-> Append(Sides[i - 1].side_faces, side.face),
                      created |-> Sides[i - 1].created \o side.created]
        segments == ApproxSegments(ShapeEdges(self.shape))
        up == Translation(self.length)
        quads == [i \in 1..Len(segments) |->
                     <<segments[i][1], segments[i][2],
                       TransformPoint(up, segments[i][2]),
                       TransformPoint(up, segments[i][1])>>]
        side_face == [i \in 1..(2 * Len(quads)) |->
                         LET q == quads[(i + 1) \div 2]
                         IN  IF i % 2 = 1 THEN <<q[1], q[2], q[3]>>
                             ELSE <<q[1], q[3], q[4]>>]
    IN  [faces |-> bottom_faces \o top_faces \o <<FaceTriangles(side_face)>>,
         side_faces |-> Sides[Len(all)].side_faces,
         created |-> Sides[Len(all)].created]

SweepInit ==
    /\ sweepShape \in {Some([shape |-> s2, length |-> l]) :
                          s2 \in Shapes2d, l \in SweepLengths}
    /\ sweepOut = None
    /\ shapeOp = None

\* A call of Sweep::faces
SweepFacesCall ==
    /\ sweepOut' = Some(SweepFaces(Unwrap(sweepShape)))
    /\ UNCHANGED <<sweepShape, shapeOp>>

(***************************************************************************)
(* Operations of the 3-D shapes that are not implemented                   *)
(* (kernel::shapes::difference_3d, kernel::shapes::sweep)                  *)
(*                                                                         *)
(* A call of an operation either returns a value to its caller or panics;  *)
(* a panic unwinds the thread that made the call, and no call follows it.  *)
(***************************************************************************)
\* A call that returns a value to its caller
Returned(value) == [outcome |-> "returned", value |-> value]

\* todo!(): panics with the message "not yet implemented"
Todo == [outcome |-> "panicked", message |-> "not yet implemented"]

\* fj::Difference of two shapes
Difference(a, b) == [kind |-> "Difference", a |-> a, b |-> b]

\* The shapes taken away in a difference
Subtrahends ==
    {[shape |-> [kind |-> "Circle", radius |-> r], length |-> 1] : r \in 1..2}

\* Shape::faces for fj::Difference
DifferenceFaces(self) == Todo

\* Shape::edges for fj::Difference
DifferenceEdges(self) == Todo

\* Shape::vertices for fj::Difference
DifferenceVertices(self) == Todo

\* Shape::edges for fj::Sweep
SweepEdges(self) == Todo

\* Shape::vertices for fj::Sweep
SweepVertices(self) == Todo

\* The thread has not panicked
Running ==
    IF shapeOp = None THEN TRUE
    ELSE Unwrap(shapeOp).result.outcome = "returned"

ShapeOpRecord(self, op, result) ==
    Some([on |-> IF "kind" \in DOMAIN self THEN "Difference" ELSE "Sweep",
          self |-> self, op |-> op, result |-> result])

\* A call of faces on the sweep, which is implemented
SweepFacesOpCall ==
    /\ Running
    /\ sweepOut' = Some(SweepFaces(Unwrap(sweepShape)))
    /\ shapeOp' = ShapeOpRecord(Unwrap(sweepShape), "faces",
                                Returned(SweepFaces(Unwrap(sweepShape)).faces))
    /\ UNCHANGED sweepShape

\* A call of edges on the sweep
SweepEdgesCall ==
    /\ Running
    /\ shapeOp' = ShapeOpRecord(Unwrap(sweepShape), "edges",
                                SweepEdges(Unwrap(sweepShape)))
    /\ UNCHANGED <<sweepShape, sweepOut>>

\* A call of vertices on the sweep
SweepVerticesCall ==
    /\ Running
    /\ shapeOp' = ShapeOpRecord(Unwrap(sweepShape), "vertices",
                                SweepVertices(Unwrap(sweepShape)))
    /\ UNCHANGED <<sweepShape, sweepOut>>

\* A call of faces on the difference of the sweep and another shape
DifferenceFacesCall ==
    /\ Running
    /\ \E b \in Subtrahends :
        LET self == Difference(Unwrap(sweepShape), b)
        IN  shapeOp' = ShapeOpRecord(self, "faces", DifferenceFaces(self))
    /\ UNCHANGED <<sweepShape, sweepOut>>

\* A call of edges on the difference of the sweep and another shape
DifferenceEdgesCall ==
    /\ Running
    /\ \E b \in Subtrahends :
        LET self == Difference(Unwrap(sweepShape), b)
        IN  shapeOp' = ShapeOpRecord(self, "edges", DifferenceEdges(self))
    /\ UNCHANGED <<sweepShape, sweepOut>>

\* A call of vertices on the difference of the sweep and another shape
DifferenceVerticesCall ==
    /\ Running
    /\ \E b \in Subtrahends :
        LET self == Difference(Unwrap(sweepShape), b)
        IN  shapeOp' = ShapeOpRecord(self, "vertices",
                                     DifferenceVertices(self))
    /\ UNCHANGED <<sweepShape, sweepOut>>

(***************************************************************************)
(* Specifications                                                          *)
(***************************************************************************)
CacheIdle ==
    /\ cache = EmptyMap
    /\ samplerCalls = [g \in GlobalCurves |-> 0]
    /\ log = <<>>
    /\ last = NoCall
    /\ pending = [w \in Workers |-> None]

EdgeIdle == edge = None /\ edgeApprox = None
ShellIdle == tetraPoints = None /\ objects = None /\ shell = None
MeshIdle ==
    /\ mesh = None /\ meshPushed = <<>>
    /\ maker = None /\ makerPushed = <<>>
    /\ trianglesPushed = <<>>
    /\ query = None

TriIdle == triArgs = None /\ triResult = None
PlaneIdle == plane = None /\ planeCall = None
ShapeIdle == shape = None /\ shapeCall = None
CycleIdle == cycle = None /\ partials = None /\ cycleCall = None
SweepIdle == sweepShape = None /\ sweepOut = None /\ shapeOp = None

ApproxIdle == CacheIdle /\ EdgeIdle /\ ShellIdle /\ MeshIdle
GeometryIdle == TriIdle /\ PlaneIdle /\ ShapeIdle /\ CycleIdle /\ SweepIdle

\* Sequential use of one approximation cache
InitCache == CacheInit /\ EdgeIdle /\ ShellIdle /\ MeshIdle /\ GeometryIdle
NextCache ==
    \/ \E g \in GlobalCurves, r \in Ranges, t \in Tolerances :
           ApproxGlobalCall(g, r, t) /\ UNCHANGED <<edgeVars, shellVars, meshVars, geometryVars>>
    \/ \E c \in Curves, r \in Ranges, t \in Tolerances :
           ApproxCurveCall(c, r, t) /\ UNCHANGED <<edgeVars, shellVars, meshVars, geometryVars>>
SpecCache == InitCache /\ [][NextCache]_vars

\* Several workers sharing one approximation cache
InitWorkers == CacheInit /\ EdgeIdle /\ ShellIdle /\ MeshIdle /\ GeometryIdle
NextWorkers ==
    \/ \E w \in Workers, req \in WorkerRequests :
           Issue(w, req) /\ UNCHANGED <<edgeVars, shellVars, meshVars, geometryVars>>
    \/ \E w \in Workers :
           Run(w) /\ UNCHANGED <<edgeVars, shellVars, meshVars, geometryVars>>
SpecWorkers == InitWorkers /\ [][NextWorkers]_vars

\* Approximation of one edge
InitEdge == CacheIdle /\ EdgeInit /\ ShellIdle /\ MeshIdle /\ GeometryIdle
NextEdge ==
    \E t \in Tolerances :
        EdgeApproxCall(t) /\ UNCHANGED <<cacheVars, shellVars, meshVars, geometryVars>>
SpecEdge == InitEdge /\ [][NextEdge]_vars

\* Building one tetrahedron
InitShell == CacheIdle /\ EdgeIdle /\ ShellInit /\ MeshIdle /\ GeometryIdle
NextShell == TetrahedronCall /\ UNCHANGED <<cacheVars, edgeVars, meshVars, geometryVars>>
SpecShell == InitShell /\ [][NextShell]_vars

\* Pushing vertices into a Mesh and into a MeshMaker
InitMesh == CacheIdle /\ EdgeIdle /\ ShellIdle /\ MeshInit /\ GeometryIdle
NextMesh ==
    \/ \E v \in MeshPoints :
           PushVertexCall(v) /\ UNCHANGED <<cacheVars, edgeVars, shellVars, geometryVars>>
    \/ \E v \in MeshPoints :
           PushCall(v) /\ UNCHANGED <<cacheVars, edgeVars, shellVars, geometryVars>>
SpecMesh == InitMesh /\ [][NextMesh]_vars

\* Pushing triangles into a Mesh and asking for them
InitTriangles == CacheIdle /\ EdgeIdle /\ ShellIdle /\ MeshInit /\ GeometryIdle
NextTriangles ==
    \/ \E t \in PushedTriangles, color \in Colors :
           PushTriangleCall(t, color) /\ UNCHANGED <<cacheVars, edgeVars, shellVars, geometryVars>>
    \/ \E t \in Triangles :
           ContainsTriangleCall(t) /\ UNCHANGED <<cacheVars, edgeVars, shellVars, geometryVars>>
SpecTriangles == InitTriangles /\ [][NextTriangles]_vars

\* Making one triangle
InitTriangleNew ==
    ApproxIdle /\ TriInit /\ PlaneIdle /\ ShapeIdle /\ CycleIdle /\ SweepIdle
NextTriangleNew ==
    TriangleNewCall
        /\ UNCHANGED <<approxVars, planeVars, shapeVars, cycleVars, sweepVars>>
SpecTriangleNew == InitTriangleNew /\ [][NextTriangleNew]_vars

\* Conversions between model and surface coordinates on one plane
InitPlane ==
    ApproxIdle /\ TriIdle /\ PlaneInit /\ ShapeIdle /\ CycleIdle /\ SweepIdle
NextPlane ==
    \/ PlaneModelToSurfaceCall
        /\ UNCHANGED <<approxVars, triVars, shapeVars, cycleVars, sweepVars>>
    \/ SurfaceModelToSurfaceCall
        /\ UNCHANGED <<approxVars, triVars, shapeVars, cycleVars, sweepVars>>
    \/ PlaneSurfaceToModelCall
        /\ UNCHANGED <<approxVars, triVars, shapeVars, cycleVars, sweepVars>>
    \/ SurfaceSurfaceToModelCall
        /\ UNCHANGED <<approxVars, triVars, shapeVars, cycleVars, sweepVars>>
SpecPlane == InitPlane /\ [][NextPlane]_vars

\* Inserting vertices into one shape
InitShape ==
    ApproxIdle /\ TriIdle /\ PlaneIdle /\ ShapeInit /\ CycleIdle /\ SweepIdle
NextShape ==
    \/ WithMinDistanceCall
        /\ UNCHANGED <<approxVars, triVars, planeVars, cycleVars, sweepVars>>
    \/ AddVertexCall
        /\ UNCHANGED <<approxVars, triVars, planeVars, cycleVars, sweepVars>>
SpecShape == InitShape /\ [][NextShape]_vars

\* Building one cycle
InitCycle ==
    ApproxIdle /\ TriIdle /\ PlaneIdle /\ ShapeIdle /\ CycleInit /\ SweepIdle
NextCycle ==
    \/ MakeLineSegmentCall
        /\ UNCHANGED <<approxVars, triVars, planeVars, shapeVars, sweepVars>>
    \/ AddHalfEdgeCall
        /\ UNCHANGED <<approxVars, triVars, planeVars, shapeVars, sweepVars>>
    \/ UpdateAsPolygonFromPointsCall
        /\ UNCHANGED <<approxVars, triVars, planeVars, shapeVars, sweepVars>>
    \/ ConnectToEdgesCall
        /\ UNCHANGED <<approxVars, triVars, planeVars, shapeVars, sweepVars>>
SpecCycle == InitCycle /\ [][NextCycle]_vars

\* The faces of one sweep
InitSweep ==
    ApproxIdle /\ TriIdle /\ PlaneIdle /\ ShapeIdle /\ CycleIdle /\ SweepInit
NextSweep ==
    SweepFacesCall
        /\ UNCHANGED <<approxVars, triVars, planeVars, shapeVars, cycleVars>>
SpecSweep == InitSweep /\ [][NextSweep]_vars

\* The operations of a sweep and of a difference
InitShapeOps == InitSweep
NextShapeOps ==
    \/ SweepFacesOpCall
        /\ UNCHANGED <<approxVars, triVars, planeVars, shapeVars, cycleVars>>
    \/ SweepEdgesCall
        /\ UNCHANGED <<approxVars, triVars, planeVars, shapeVars, cycleVars>>
    \/ SweepVerticesCall
        /\ UNCHANGED <<approxVars, triVars, planeVars, shapeVars, cycleVars>>
    \/ DifferenceFacesCall
        /\ UNCHANGED <<approxVars, triVars, planeVars, shapeVars, cycleVars>>
    \/ DifferenceEdgesCall
        /\ UNCHANGED <<approxVars, triVars, planeVars, shapeVars, cycleVars>>
    \/ DifferenceVerticesCall
        /\ UNCHANGED <<approxVars, triVars, planeVars, shapeVars, cycleVars>>
SpecShapeOps == InitShapeOps /\ [][NextShapeOps]_vars

(***************************************************************************)
(* Properties of the approximation cache                                   *)
(***************************************************************************)
\* C1: a call on a global curve that the cache already holds returns the
\* stored approximation and does not invoke the sampler; a call on a curve
\* the cache does not hold invokes the sampler exactly once and leaves the
\* returned approximation in the cache under that curve.
C1_HitReturnsStoredMissSamplesOnce ==
    last.kind = "global" =>
        IF last.curve \in DOMAIN last.before
        THEN /\ last.result = last.before[last.curve]
             /\ last.sampled = 0
        ELSE /\ last.sampled = 1
             /\ last.curve \in DOMAIN cache
             /\ cache[last.curve] = last.result

C1_Witness ==
    /\ last.kind = "global"
    /\ last.curve \in DOMAIN last.before
    /\ Len(last.result.points) > 0
    /\ \E i \in 1..Len(log) : log[i].kind = "global" /\ log[i].curve = last.curve
                               /\ log[i].range # last.range

SameRequest(a, b) ==
    /\ a.kind = b.kind /\ a.curve = b.curve
    /\ a.range = b.range /\ a.tolerance = b.tolerance

\* C2: two calls with the same (g, r, t) on one cache, with any calls in
\* between, return identical point sequences, and the sampler has been
\* invoked exactly once for g.
C2_RepeatedCallIdentical ==
    \A i, j \in 1..Len(log) :
        (i < j /\ log[i].kind = "global" /\ SameRequest(log[i], log[j])) =>
            /\ log[i].result.points = log[j].result.points
            /\ samplerCalls[log[i].curve] = 1

C2_Witness ==
    \E i, j \in 1..Len(log) :
        /\ i + 1 < j
        /\ log[i].kind = "global" /\ SameRequest(log[i], log[j])
        /\ Len(log[j].result.points) > 0
        /\ RequestGlobal(log[i + 1]) # log[i].curve

\* C3: two local curves of the same global curve, approximated through the
\* same cache, get sequences of the same length with, position by position,
\* the same global form and the same curve coordinate as source; the
\* surface form is the curve's own path applied to that coordinate.
C3_SharedGlobalCurveSamePoints ==
    \A i, j \in 1..Len(log) :
        (/\ log[i].kind = "curve" /\ log[j].kind = "curve"
         /\ global_form(log[i].curve) = global_form(log[j].curve)) =>
            LET p == log[i].result.points
                q == log[j].result.points
            IN  /\ Len(p) = Len(q)
                /\ \A k \in 1..Len(p) :
                       /\ p[k].global_form = q[k].global_form
                       /\ p[k].source[2] = q[k].source[2]
                       /\ p[k].source[1] = log[i].curve
                       /\ p[k].local_form =
                              point_from_path_coords(CurvePath(log[i].curve),
                                                     p[k].source[2])

C3_Witness ==
    \E i, j \in 1..Len(log) :
        /\ log[i].kind = "curve" /\ log[j].kind = "curve"
        /\ log[i].curve # log[j].curve
        /\ global_form(log[i].curve) = global_form(log[j].curve)
        /\ log[i].range # log[j].range
        /\ Len(log[i].result.points) > 1
        /\ log[i].result.points[1].local_form # log[j].result.points[1].local_form

\* The approximation of g over a range at a tolerance, freshly sampled
FreshApprox(g, range, tolerance) ==
    LET sampled == PathApprox(GlobalCurvePath(g), range, tolerance)
    IN  [i \in 1..Len(sampled) |-> ApproxPoint(sampled[i][1], sampled[i][2])]

\* C4: the result returned for a request (g, r, t) is the approximation of
\* g over the request's own range r at the request's own tolerance t, also
\* after an earlier request for g with another range or tolerance.
C4_KeyedByCurveRangeTolerance ==
    \A i \in 1..Len(log) :
        log[i].kind = "global" =>
            log[i].result.points =
                FreshApprox(log[i].curve, log[i].range, log[i].tolerance)

\* The curve coordinate of a returned point
CurveCoord(entry, point) ==
    IF entry.kind = "global" THEN point.local_form ELSE point.source[2]

\* C5: no point of the sequence returned for a range [s, e) has curve
\* coordinate s or e.
C5_BoundaryExcluded ==
    \A i \in 1..Len(log) :
        \A k \in 1..Len(log[i].result.points) :
            /\ CurveCoord(log[i], log[i].result.points[k]) # log[i].range[1]
            /\ CurveCoord(log[i], log[i].result.points[k]) # log[i].range[2]

\* C6: whatever the interleaving of the workers' requests, the sampler runs
\* at most once per global curve, and two requests for different global
\* curves give the same results and the same cache in either order.
C6_SerializedPerCurve ==
    /\ \A g \in GlobalCurves : samplerCalls[g] <= 1
    /\ \A w1, w2 \in Workers :
           (/\ w1 # w2 /\ pending[w1] # None /\ pending[w2] # None
            /\ RequestGlobal(Unwrap(pending[w1])) # RequestGlobal(Unwrap(pending[w2]))) =>
               LET r1 == Unwrap(pending[w1])
                   r2 == Unwrap(pending[w2])
                   a  == RunRequest(cache, samplerCalls, r1)
                   ab == RunRequest(a.cache, a.calls, r2)
                   b  == RunRequest(cache, samplerCalls, r2)
                   ba == RunRequest(b.cache, b.calls, r1)
               IN  /\ ab.cache = ba.cache
                   /\ ab.calls = ba.calls
                   /\ a.result = ba.result
                   /\ b.result = ab.result

C6_Witness ==
    /\ pending[1] # None /\ pending[2] # None
    /\ RequestGlobal(Unwrap(pending[1])) # RequestGlobal(Unwrap(pending[2]))
    /\ RequestGlobal(Unwrap(pending[1])) \in DOMAIN cache
    /\ RequestGlobal(Unwrap(pending[2])) \notin DOMAIN cache
    /\ last.kind # "none" /\ last.sampled = 0
    /\ Cardinality(DOMAIN cache) = 2

(***************************************************************************)
(* Properties of the edge approximation                                    *)
(***************************************************************************)
\* The exact approximation point of a bounding vertex of an edge
VertexPoint(e, vertex) ==
    <<point_from_path_coords(e.curve.kind, vertex.position), vertex.global>>

\* C7: the approximation of an edge with bounding vertices is the curve's
\* approximation with the exact start vertex before the sampled points and
\* the exact end vertex after them; without bounding vertices it is the
\* curve's approximation as it is.
C7_EdgeApproxHasBothVertices ==
    edgeApprox # None =>
        LET r == Unwrap(edgeApprox)
            sampled == CurveApproxRange(edge.curve, r.tolerance, <<0, TAU>>)
        IN  IF edge.vertices # None
            THEN r.points = <<VertexPoint(edge, Unwrap(edge.vertices)[1])>>
                                \o sampled
                                \o <<VertexPoint(edge, Unwrap(edge.vertices)[2])>>
            ELSE r.points = sampled

(***************************************************************************)
(* Properties of the shell builder                                         *)
(***************************************************************************)
\* The next slot of a triangle
NextSlot(k) == (k % 3) + 1

\* The faces of the shell that use a half-edge
FacesUsing(faces, h) ==
    {i \in 1..Len(faces) : \E k \in 1..3 : faces[i].edges[k] = h}

\* C8: the tetrahedron has 4 triangular faces; 6 half-edges are created for
\* it, every one is used by exactly 2 faces, and every half-edge sits at a
\* slot whose two corner points are its own two endpoints.
C8_TetrahedronSharesSixEdges ==
    shell # None =>
        LET faces == Unwrap(shell).faces
            used == {faces[i].edges[k] : i \in 1..Len(faces), k \in 1..3}
        IN  /\ Len(faces) = 4
            /\ \A i \in 1..Len(faces) :
                   /\ Len(faces[i].edges) = 3
                   /\ Cardinality({faces[i].points[k] : k \in 1..3}) = 3
                   /\ {faces[i].points[k] : k \in 1..3}
                          \subseteq {tetraPoints[k] : k \in 1..4}
            /\ Unwrap(shell).created = 6
            /\ Cardinality(used) = 6
            /\ used = (Len(objects) - 5)..Len(objects)
            /\ \A h \in used : Cardinality(FacesUsing(faces, h)) = 2
            /\ \A i \in 1..Len(faces), k \in 1..3 :
                   {objects[faces[i].edges[k]].start, objects[faces[i].edges[k]].end}
                       = {faces[i].points[k], faces[i].points[NextSlot(k)]}

C8_Witness ==
    /\ shell # None
    /\ Len(objects) = 7
    /\ Len(Unwrap(shell).faces) = 4

(***************************************************************************)
(* Properties of the meshes                                                *)
(***************************************************************************)
\* The elements of a sequence in order of first occurrence
RECURSIVE FirstOccurrences(_)
FirstOccurrences(s) ==
    IF s = <<>>
    THEN <<>>
    ELSE LET front == FirstOccurrences(SubSeq(s, 1, Len(s) - 1))
             x == s[Len(s)]
         IN  IF \E i \in 1..(Len(s) - 1) : s[i] = x THEN front ELSE Append(front, x)

Deduplicated(vertices, indices, pushed) ==
    /\ \A i, j \in 1..Len(vertices) : i # j => vertices[i] # vertices[j]
    /\ vertices = FirstOccurrences(pushed)
    /\ Len(indices) = Len(pushed)
    /\ \A k \in 1..Len(indices) :
           /\ indices[k] < Len(vertices)
           /\ vertices[indices[k] + 1] = pushed[k]

\* C9: after any pushes, in a Mesh and in a MeshMaker, no vertex is stored
\* twice, the vertices are in order of first push, there is one index per
\* push, in push order, and the k-th index refers to the k-th pushed vertex.
C9_PushDeduplicates ==
    /\ Deduplicated(mesh.vertices, mesh.indices, meshPushed)
    /\ Deduplicated(maker.vertices, maker.indices, makerPushed)

C9_Witness ==
    /\ Len(meshPushed) = 3 /\ meshPushed[1] = meshPushed[3]
    /\ meshPushed[1] # meshPushed[2]
    /\ Len(mesh.vertices) = 2 /\ mesh.indices = <<0, 1, 0>>
    /\ Len(makerPushed) = 2 /\ makerPushed[1] = makerPushed[2]
    /\ Len(maker.vertices) = 1 /\ maker.indices = <<0, 0>>

\* The 6 vertex orders of a triangle
Orders(t) ==
    {<<t[1], t[2], t[3]>>, <<t[2], t[3], t[1]>>, <<t[3], t[1], t[2]>>,
     <<t[3], t[2], t[1]>>, <<t[2], t[1], t[3]>>, <<t[1], t[3], t[2]>>}

\* C10: contains_triangle(t) is true exactly when a pushed triangle has the
\* points of t in one of the 6 vertex orders, whatever its color, and the
\* mesh holds the pushed triangles as they were pushed.
C10_ContainsAnyOrder ==
    /\ mesh.triangles = [i \in 1..Len(trianglesPushed) |->
                            [inner |-> trianglesPushed[i].points,
                             color |-> trianglesPushed[i].color]]
    /\ query # None =>
           Unwrap(query).answer =
               (\E i \in 1..Len(trianglesPushed) :
                    trianglesPushed[i].points \in Orders(Unwrap(query).triangle))

C10_Witness ==
    /\ query # None
    /\ Unwrap(query).answer
    /\ Len(trianglesPushed) = 2
    /\ trianglesPushed[1].color # trianglesPushed[2].color
    /\ \A i \in 1..2 : trianglesPushed[i].points # Unwrap(query).triangle
    /\ LET t == Unwrap(query).triangle
       IN  trianglesPushed[2].points = <<t[3], t[2], t[1]>>

(***************************************************************************)
(* Properties of Triangle::new                                             *)
(***************************************************************************)
\* Three points on one line
Collinear(a, b, c) == Cross2(VecSub(b, a), VecSub(c, a)) = 0

\* Three pairwise distinct points not on one line
ValidTriple(a, b, c) == a # b /\ a # c /\ b # c /\ ~Collinear(a, b, c)

C12_DegenerateRejected ==
    triResult # None =>
        LET a == triArgs[1]
            b == triArgs[2]
            c == triArgs[3]
            r == Unwrap(triResult)
        IN  /\ (a = b \/ a = c \/ b = c) => r = Err("CollapsedPoints")
            /\ (a # b /\ a # c /\ b # c /\ Collinear(a, b, c)) =>
                   r = Err("IsALineSegment")
            /\ r.ok => ValidTriple(a, b, c)

(***************************************************************************)
(* Properties of the surface conversions                                   *)
(***************************************************************************)
\* The plane of the tests of the conversions
TestPlane == Plane(<<1, 2, 3>>, <<0, 1, 0>>, <<0, 0, 1>>)

\* The point is off the plane: its offset from the origin has a part
\* along the normal
OffPlane(pl, point) ==
    Dot(Cross3(pl.u, pl.v), VecSub(point, pl.origin)) # 0

\* s is the scalar projection of p onto the direction of u
IsScalarProjection(s, p, u) == s * s * Dot(u, u) = Dot(p, u) * Dot(p, u)
                                   /\ s * Dot(p, u) >= 0

\* C13: point_model_to_surface fails exactly for the points off the plane
\* and otherwise returns the scalar projections of point - origin onto the
\* directions of u and v; on the plane of the tests (1,4,6) maps to (2,3)
\* and (2,4,6) is rejected; a Surface answers as the plane it wraps.
C13_ModelToSurface ==
    (planeCall # None /\ Unwrap(planeCall).op = "point_model_to_surface") =>
        LET pl == Unwrap(plane)
            call == Unwrap(planeCall)
            p == VecSub(call.input, pl.origin)
        IN  /\ call.result.ok = ~OffPlane(pl, call.input)
            /\ call.result.ok =>
                   /\ IsScalarProjection(call.result.value[1], p, pl.u)
                   /\ IsScalarProjection(call.result.value[2], p, pl.v)
            /\ (pl = TestPlane /\ call.input = <<1, 4, 6>>) =>
                   call.result = Ok(<<2, 3>>)
            /\ (pl = TestPlane /\ call.input = <<2, 4, 6>>) =>
                   ~call.result.ok
            /\ call.on = "Surface" =>
                   call.result = PlanePointModelToSurface(pl, call.input)

C13_Witness ==
    /\ planeCall # None
    /\ Unwrap(planeCall).on = "Surface"
    /\ Unwrap(planeCall).op = "point_model_to_surface"
    /\ Norm(Unwrap(plane).u) = 2
    /\ Unwrap(planeCall).result.ok
    /\ Unwrap(planeCall).result.value[1] # 0

\* C14: a point on the plane converted to surface coordinates and back is
\* the same point, and a surface point converted to model coordinates and
\* back is the same surface point.
C14_RoundTrip ==
    planeCall # None =>
        LET pl == Unwrap(plane)
            call == Unwrap(planeCall)
        IN  /\ (call.op = "point_model_to_surface"
                    /\ ~OffPlane(pl, call.input)) =>
                   /\ call.result.ok
                   /\ PlanePointSurfaceToModel(pl, call.result.value)
                          = call.input
            /\ call.op = "point_surface_to_model" =>
                   /\ call.result = VecAdd(pl.origin,
                          VecAdd(VecScale(pl.u, call.input[1]),
                                 VecScale(pl.v, call.input[2])))
                   /\ PlanePointModelToSurface(pl, call.result)
                          = Ok(call.input)

(***************************************************************************)
(* Properties of the vertices of a shape                                   *)
(***************************************************************************)
\* An insertion of a vertex that lies within the configured minimum
\* distance of another stored vertex is rejected and stores nothing
CloseVertexRejected ==
    (shapeCall # None /\ Unwrap(shapeCall).op = "add_vertex") =>
        LET call == Unwrap(shapeCall)
            close == \E i \in 1..Len(call.before) :
                        /\ call.before[i].id # call.vertex.id
                        /\ DistanceSquared(call.before[i].point,
                                           call.vertex.point)
                               < call.min_distance * call.min_distance
        IN  close => /\ ~call.result.ok
                     /\ Unwrap(shape).vertices = call.before

\* The stored vertices i < j are at least d apart
Apart(i, j, d) ==
    DistanceSquared(Unwrap(shape).vertices[i].point,
                    Unwrap(shape).vertices[j].point) >= d * d

\* C15 as stated: a vertex within the minimum distance of another stored
\* vertex is rejected and the vertices are left unchanged, and any two
\* stored vertices are at least the shape's minimum distance apart.
C15_VerticesMinDistanceApart ==
    /\ CloseVertexRejected
    /\ \A j \in 1..Len(Unwrap(shape).vertices) : \A i \in 1..(j - 1) :
           Apart(i, j, Unwrap(shape).min_distance)

\* C15, amended: a vertex within the minimum distance of another stored
\* vertex is rejected and the vertices are left unchanged, and any two
\* stored vertices are at least as far apart as the minimum distance that
\* was configured when the later of the two was inserted.
C15_VerticesApartAsValidated ==
    /\ CloseVertexRejected
    /\ \A j \in 1..Len(Unwrap(shape).vertices) : \A i \in 1..(j - 1) :
           Apart(i, j, Unwrap(shape).inserted_with[j])

C15_Witness ==
    /\ shapeCall # None
    /\ Unwrap(shapeCall).op = "add_vertex"
    /\ Unwrap(shapeCall).min_distance = 8
    /\ ~Unwrap(shapeCall).result.ok
    /\ Len(Unwrap(shape).vertices) = 2
    /\ \E i \in 1..2 :
           DistanceSquared(Unwrap(shape).vertices[i].point,
                           Unwrap(shapeCall).vertex.point) = 36

(***************************************************************************)
(* Properties of the cycle builder                                         *)
(***************************************************************************)
\* A half-edge of the store
StoredHalfEdge(id) == Unwrap(partials).half_edges[id]

\* The half-edge ends where the next one starts
Connected(half_edge, next) ==
    /\ half_edge.points # None
    /\ next.points # None
    /\ Unwrap(half_edge.points)[2] = Unwrap(next.points)[1]

\* The element after index i of a sequence, cyclically
Successor(xs, i) == xs[(i % Len(xs)) + 1]

\* The element before index i of a sequence, cyclically
Predecessor(xs, i) == xs[IF i = 1 THEN Len(xs) ELSE i - 1]

\* C16: a half-edge added by add_half_edge starts where the half-edge that
\* was last before it ends and ends where the first half-edge starts; one
\* added to an empty cycle ends where it starts.
C16_AddedHalfEdgeConnected ==
    (cycleCall # None /\ Unwrap(cycleCall).op = "add_half_edge") =>
        LET call == Unwrap(cycleCall)
            after == Unwrap(cycle).half_edges
            added == StoredHalfEdge(call.input)
        IN  /\ after = Append(call.before, call.input)
            /\ Connected(StoredHalfEdge(Predecessor(after, Len(after))),
                         added)
            /\ Connected(added, StoredHalfEdge(after[1]))

\* C17: update_as_polygon_from_points on n points adds n new line
\* segments to the cycle, the i-th from point i to the point after it, the
\* last one back to the first point, and returns them in that order; each
\* of them has a vertex of its own at its start, which is the vertex at
\* the end of the one before it, so that they form a closed cycle.
C17_PolygonFromPoints ==
    (cycleCall # None
        /\ Unwrap(cycleCall).op = "update_as_polygon_from_points") =>
        LET call == Unwrap(cycleCall)
            n == Len(call.input)
            made == Len(call.objects.half_edges)
            r == call.returned
        IN  /\ Len(r) = n
            /\ Len(Unwrap(partials).half_edges) = made + n
            /\ Unwrap(cycle).half_edges = call.before \o r
            /\ \A i \in 1..n :
                /\ r[i] = made + i
                /\ StoredHalfEdge(r[i]).points
                       = Some(<<call.input[i], Successor(call.input, i)>>)
                /\ Connected(StoredHalfEdge(Predecessor(r, i)),
                             StoredHalfEdge(r[i]))
                /\ StoredHalfEdge(r[i]).start_vertex > call.objects.vertices
            /\ \A i, j \in 1..n : i # j =>
                   StoredHalfEdge(r[i]).start_vertex
                       # StoredHalfEdge(r[j]).start_vertex
            /\ Unwrap(partials).vertices = call.objects.vertices + n

C17_Witness ==
    /\ cycleCall # None
    /\ Unwrap(cycleCall).op = "update_as_polygon_from_points"
    /\ Len(Unwrap(cycleCall).input) = 3
    /\ Len(Unwrap(cycleCall).before) = 1
    /\ Len(Unwrap(cycle).half_edges) = 4

\* C18: connect_to_edges on n half-edges creates n half-edges, adds them
\* to the cycle and returns them, in the order of the given ones; the i-th
\* has the start vertex of the given half-edge before the i-th, the first
\* that of the last; the given half-edges stay as they were.
C18_ConnectToEdges ==
    (cycleCall # None /\ Unwrap(cycleCall).op = "connect_to_edges") =>
        LET call == Unwrap(cycleCall)
            n == Len(call.input)
            made == Len(call.objects.half_edges)
            r == call.returned
        IN  /\ Len(r) = n
            /\ Len(Unwrap(partials).half_edges) = made + n
            /\ Unwrap(cycle).half_edges = call.before \o r
            /\ \A i \in 1..n :
                /\ r[i] = made + i
                /\ StoredHalfEdge(r[i]).start_vertex
                       = call.objects.half_edges[
                             Predecessor(call.input, i)].start_vertex
            /\ \A id \in 1..made :
                   StoredHalfEdge(id) = call.objects.half_edges[id]

C18_Witness ==
    /\ cycleCall # None
    /\ Unwrap(cycleCall).op = "connect_to_edges"
    /\ Len(Unwrap(cycleCall).input) = 2
    /\ Unwrap(cycleCall).input[1] > Unwrap(cycleCall).input[2]
    /\ StoredHalfEdge(Unwrap(cycleCall).returned[1]).start_vertex
           # StoredHalfEdge(Unwrap(cycleCall).returned[2]).start_vertex
    /\ Len(Unwrap(cycleCall).before) = 1

(***************************************************************************)
(* Properties of the sweep                                                 *)
(***************************************************************************)
\* The edges of the boundary of the swept shape
BoundaryEdges ==
    LET all == ShapeEdges(Unwrap(sweepShape).shape).cycles[1].edges
    IN  {all[i] : i \in 1..Len(all)}

\* The faces of a sequence
FaceSet(faces) == {faces[i] : i \in 1..Len(faces)}

\* C19: the faces that the sweep returns hold, for every boundary edge
\* without vertices, a face of exactly two cycles, of the edge and of the
\* edge translated by the length of the sweep, and no vertex is created
\* for it; and for every boundary edge with two vertices a face with one
\* cycle of four edges.
C19_SideWallsReturned ==
    sweepOut # None =>
        \A e \in BoundaryEdges :
            LET top == EdgeTransform(e, Translation(Unwrap(sweepShape).length))
            IN  \E f \in FaceSet(Unwrap(sweepOut).faces) :
                    /\ f.kind = "Face"
                    /\ IF e.vertices = None
                       THEN /\ f.edges.cycles
                                   = <<EdgeCycle(<<e>>), EdgeCycle(<<top>>)>>
                            /\ Unwrap(sweepOut).created = <<>>
                       ELSE /\ Len(f.edges.cycles) = 1
                            /\ Len(f.edges.cycles[1].edges) = 4
                            /\ f.edges.cycles[1].edges[1] = e
                            /\ f.edges.cycles[1].edges[3] = top

\* Where an edge with vertices begins and ends
Beginning(e) ==
    Unwrap(e.vertices)[IF e.reverse THEN 2 ELSE 1].canonical
End(e) ==
    Unwrap(e.vertices)[IF e.reverse THEN 1 ELSE 2].canonical

\* The end of each edge of the cycle is the beginning of the next one, and
\* the end of the last edge the beginning of the first; an edge without
\* vertices is connected to itself
WellFormed(c) ==
    IF \E i \in 1..Len(c.edges) : c.edges[i].vertices = None
    THEN Len(c.edges) = 1
    ELSE \A i \in 1..Len(c.edges) :
             End(c.edges[i]) = Beginning(Successor(c.edges, i))

\* C20: every cycle in the faces that the sweep has built is well-formed.
C20_SweepCyclesWellFormed ==
    sweepOut # None =>
        \A f \in FaceSet(Unwrap(sweepOut).faces)
                     \cup FaceSet(Unwrap(sweepOut).side_faces) :
            f.kind = "Face" =>
                \A i \in 1..Len(f.edges.cycles) : WellFormed(f.edges.cycles[i])


\* C21: a sweep creates no vertex twice: the calls of Vertex::create_at in
\* Edge::sweep_vertex are for pairwise different locations, one for each
\* vertex of the boundary.
C21_SweptVerticesCreatedOnce ==
    sweepOut # None =>
        LET created == Unwrap(sweepOut).created
            boundary == {Unwrap(e.vertices)[k].canonical :
                            e \in {b \in BoundaryEdges : b.vertices # None},
                            k \in 1..2}
        IN  /\ \A i, j \in 1..Len(created) :
                   i # j => created[i] # created[j]
            /\ Len(created) = Cardinality(boundary)


(***************************************************************************)
(* Properties of the operations that are not implemented                   *)
(***************************************************************************)
\* The operations that are not implemented
Unsupported(call) ==
    \/ call.on = "Difference"
    \/ call.op \in {"edges", "vertices"}

\* C22: an operation that is not implemented returns an error value to its
\* caller; it does not panic and returns no geometry.
C22_UnsupportedReportsError ==
    (shapeOp # None /\ Unsupported(Unwrap(shapeOp))) =>
        /\ Unwrap(shapeOp).result.outcome = "returned"
        /\ ~Unwrap(shapeOp).result.value.ok


(***************************************************************************)
(* Properties that compare the two meshes, and of the cache entries        *)
(***************************************************************************)
\* C23: after the same pushes a MeshMaker and a Mesh hold the same
\* vertices and the same indices; and the indices_by_vertex map of a Mesh
\* has one entry for each stored vertex, which is its position in the
\* list of vertices, and every index is below the number of vertices.
C23_DeduplicatorsEquivalent ==
    /\ meshPushed = makerPushed =>
           /\ mesh.vertices = maker.vertices
           /\ mesh.indices = maker.indices
    /\ DOMAIN mesh.indices_by_vertex
           = {mesh.vertices[i] : i \in 1..Len(mesh.vertices)}
    /\ \A i \in 1..Len(mesh.vertices) :
           mesh.indices_by_vertex[mesh.vertices[i]] = i - 1
    /\ \A k \in 1..Len(mesh.indices) : mesh.indices[k] < Len(mesh.vertices)

C23_Witness ==
    /\ meshPushed = makerPushed
    /\ Len(meshPushed) = 3
    /\ meshPushed[1] # meshPushed[2]
    /\ meshPushed[3] = meshPushed[2]
    /\ maker.indices = <<0, 1, 1>>
    /\ mesh.indices_by_vertex[meshPushed[2]] = 1


\* C24: a call of approx_with_cache leaves every entry the cache held
\* before it as it was; a call for a curve the cache held leaves the whole
\* cache unchanged, and a call for a curve it did not hold adds one entry,
\* for that curve.
C24_CacheEntriesStable ==
    last.kind # "none" =>
        /\ \A g \in DOMAIN last.before :
               g \in DOMAIN cache /\ cache[g] = last.before[g]
        /\ IF RequestGlobal(last) \in DOMAIN last.before
           THEN cache = last.before
           ELSE DOMAIN cache = DOMAIN last.before \cup {RequestGlobal(last)}

C24_Witness ==
    /\ last.kind = "curve"
    /\ RequestGlobal(last) \in DOMAIN last.before
    /\ Cardinality(DOMAIN cache) = 2
    /\ \E i \in 1..Len(log) :
           /\ RequestGlobal(log[i]) = RequestGlobal(last)
           /\ log[i].range # last.range
           /\ log[i].tolerance # last.tolerance

====
